---- MODULE Spec2Model ----
(***************************************************************************)
(* LendingProtocol (Solidity, ignition/modules/LendingModule.ts lines      *)
(* 21-114) together with the two ERC20 assets it moves.  One action per    *)
(* external function; a transaction that reverts leaves every contract     *)
(* variable as it was and only its receipt (last) records the failure.     *)
(* Amounts are token units; the clock is block.timestamp in seconds.       *)
(***************************************************************************)
EXTENDS Integers, Sequences, FiniteSets, TLC

VARIABLES positions, collateralToken, loanToken, now, last,
          ethereum, contracts, app, pending, initializeContractsReturned

vars == <<positions, collateralToken, loanToken, now, last,
          ethereum, contracts, app, pending, initializeContractsReturned>>

\* the state of the contracts on the chain
ledgerVars == <<positions, collateralToken, loanToken, now>>

\* the state of the web app in the browser
webVars == <<ethereum, contracts, app, pending, initializeContractsReturned>>

----------------------------------------------------------------------------
(* Protocol policy                                                         *)

INTEREST_RATE == 5

COLLATERAL_RATIO == 150

PRICE_RATIO == 1

SECONDS_PER_WEEK == 604800

----------------------------------------------------------------------------
(* Bounds of the model                                                     *)

\* loan asset held by the ledger after deployment
InitialLiquidity == 25

\* handlers of the web app suspended at an await at once
MaxInFlight == 2

\* collateral asset held by each user after deployment
UserCollateral == 24

\* loan asset held by each user after deployment (pays interest)
UserLoan == 2

\* block.timestamp of the first block after deployment
StartTime == 1

\* the clock runs over StartTime .. StartTime + MaxWeeks weeks
MaxWeeks == 2

Users == {"user1", "user2"}

Ledger == "lendingProtocol"

Holders == Users \cup {Ledger}

\* amounts a caller passes to depositCollateral
DepositAmounts == {0, 8, 16}

\* amounts a caller passes to borrow: nothing, the most that a deposit of 16
\* covers (11 * 150 / 100 = 16, rounded down), and more than any collateral
\* a user can hold covers
BorrowAmounts == {0, 11, 17}

\* amounts a caller approves the ledger to take of the collateral asset
ApproveAmounts == {0, 16}

\* instants at which a block is mined: one second before and exactly on
\* every week boundary counted from StartTime
BlockTimes ==
    {StartTime + k * SECONDS_PER_WEEK - d : k \in 0..MaxWeeks, d \in {0, 1}}
        \cap (StartTime .. StartTime + MaxWeeks * SECONDS_PER_WEEK)

----------------------------------------------------------------------------
(* ERC20 (OpenZeppelin), as used by CollateralToken and LoanToken.  Only   *)
(* the ledger is ever a spender, so allowance[o] is allowance(o, ledger).  *)

balanceOf(token, holder) == token.balance[holder]

allowance(token, owner) == token.allowance[owner]

\* transfer(to, value) sent by from: "ok" or the custom error it reverts with
transferError(token, from, value) ==
    IF balanceOf(token, from) < value THEN "ERC20InsufficientBalance" ELSE "ok"

\* transferFrom(from, to, value) sent by the ledger: the allowance is spent
\* first, then the balance is moved
transferFromError(token, from, value) ==
    IF allowance(token, from) < value THEN "ERC20InsufficientAllowance"
    ELSE IF balanceOf(token, from) < value THEN "ERC20InsufficientBalance"
    ELSE "ok"

\* variant: the credit is applied to the balance read before the debit, so a
\* transfer to oneself adds the amount
moveBalance_selfCredited(balance, from, to, value) ==
    [h \in DOMAIN balance |->
        IF h = to THEN balance[h] + value
        ELSE IF h = from THEN balance[h] - value
        ELSE balance[h]]

moveBalance(balance, from, to, value) ==
    [h \in DOMAIN balance |->
        IF h = from /\ h = to THEN balance[h]
        ELSE IF h = from THEN balance[h] - value
        ELSE IF h = to THEN balance[h] + value
        ELSE balance[h]]

transfer(token, from, to, value) ==
    [token EXCEPT !.balance = moveBalance(@, from, to, value)]

\* variant: transferFrom moves the balance and leaves the allowance as it was
transferFrom_allowanceKept(token, from, to, value) ==
    [token EXCEPT !.balance = moveBalance(@, from, to, value)]

transferFrom(token, from, to, value) ==
    [token EXCEPT !.balance = moveBalance(@, from, to, value),
                  !.allowance[from] = @ - value]

approved(token, owner, value) ==
    [token EXCEPT !.allowance[owner] = value]

----------------------------------------------------------------------------
(* LendingProtocol                                                         *)

UserPosition == [collateral |-> 0, debt |-> 0, lastUpdated |-> 0]

\* variant: one week's interest is rounded down before it is multiplied by
\* the number of weeks
interestAt_dividedFirst(debt, lastUpdated, timestamp) ==
    IF debt = 0 THEN 0
    ELSE LET timeElapsed == timestamp - lastUpdated
             weeksElapsed == timeElapsed \div SECONDS_PER_WEEK
         IN  ((debt * INTEREST_RATE) \div 100) * weeksElapsed

\* variant: a week that has begun counts as a whole week
interestAt_startedWeeks(debt, lastUpdated, timestamp) ==
    IF debt = 0 THEN 0
    ELSE LET timeElapsed == timestamp - lastUpdated
             weeksElapsed == (timeElapsed + SECONDS_PER_WEEK - 1) \div SECONDS_PER_WEEK
         IN  (debt * INTEREST_RATE * weeksElapsed) \div 100

\* the body of calculateInterest on a position's fields at block.timestamp
interestAt(debt, lastUpdated, timestamp) ==
    IF debt = 0 THEN 0
    ELSE LET timeElapsed == timestamp - lastUpdated
             weeksElapsed == timeElapsed \div SECONDS_PER_WEEK
         IN  (debt * INTEREST_RATE * weeksElapsed) \div 100

calculateInterest(user) ==
    interestAt(positions[user].debt, positions[user].lastUpdated, now)

\* variant: the collateral check reads all the collateral the ledger holds
collateralValue_pooled(user) == balanceOf(collateralToken, Ledger) * PRICE_RATIO

collateralValue(user) == positions[user].collateral * PRICE_RATIO

\* variant: the required collateral rounded up instead of down
requiredCollateral_roundedUp(amount) == (amount * COLLATERAL_RATIO + 99) \div 100

requiredCollateral(amount) == (amount * COLLATERAL_RATIO) \div 100

\* variant: borrow without its collateral require
borrowError_noCollateralCheck(user, amount) ==
    IF ~(balanceOf(loanToken, Ledger) >= amount)
        THEN "Insufficient liquidity"
    ELSE "ok"

\* variant: the collateral has to cover the debt there is plus the amount asked
borrowError_cumulative(user, amount) ==
    IF ~(collateralValue(user) >=
            requiredCollateral(positions[user].debt + amount))
        THEN "Insufficient collateral"
    ELSE IF ~(balanceOf(loanToken, Ledger) >= amount)
        THEN "Insufficient liquidity"
    ELSE "ok"

\* variant: the liquidity is checked before the collateral
borrowError_liquidityFirst(user, amount) ==
    IF ~(balanceOf(loanToken, Ledger) >= amount)
        THEN "Insufficient liquidity"
    ELSE IF ~(collateralValue(user) >= requiredCollateral(amount))
        THEN "Insufficient collateral"
    ELSE "ok"

\* variant: borrow without its liquidity require; the token's transfer is what
\* refuses an amount the ledger does not hold
borrowError_noLiquidityCheck(user, amount) ==
    IF ~(collateralValue(user) >= requiredCollateral(amount))
        THEN "Insufficient collateral"
    ELSE transferError(loanToken, Ledger, amount)

\* the two require statements of borrow, in order
borrowError(user, amount) ==
    IF ~(collateralValue(user) >= requiredCollateral(amount))
        THEN "Insufficient collateral"
    ELSE IF ~(balanceOf(loanToken, Ledger) >= amount)
        THEN "Insufficient liquidity"
    ELSE "ok"

\* variant: repay takes the principal and forgets the interest
repayTotalAmount_principalOnly(user) == positions[user].debt

\* variant: repay without its debt require
repayError_noDebtCheck(user) ==
    transferFromError(loanToken, user, positions[user].debt + calculateInterest(user))

\* repay: require(debt > 0), then the transferFrom of debt + interest
repayTotalAmount(user) == positions[user].debt + calculateInterest(user)

repayError(user) ==
    IF ~(positions[user].debt > 0) THEN "No debt to repay"
    ELSE transferFromError(loanToken, user, repayTotalAmount(user))

\* variant: withdrawCollateral without its debt require
withdrawError_noDebtCheck(user) ==
    IF ~(positions[user].collateral > 0) THEN "No collateral"
    ELSE transferError(collateralToken, Ledger, positions[user].collateral)

\* withdrawCollateral: the two require statements, then the transfer
withdrawError(user) ==
    IF ~(positions[user].debt = 0) THEN "Outstanding debt"
    ELSE IF ~(positions[user].collateral > 0) THEN "No collateral"
    ELSE transferError(collateralToken, Ledger, positions[user].collateral)

\* variant: depositCollateral does not touch lastUpdated
deposited_clockKept(position, amount) ==
    [position EXCEPT !.collateral = @ + amount]

\* variant: withdrawCollateral pays out and keeps the collateral on the books
withdrawn_notCleared(position) == position

\* variant: depositCollateral records the new amount in place of the running
\* collateral
deposited_overwrites(position, amount) ==
    [position EXCEPT !.collateral = amount, !.lastUpdated = now]

\* variant: depositCollateral leaves the interest clock of a position that has
\* debt running
deposited_clockKeptOnDebt(position, amount) ==
    [position EXCEPT !.collateral = @ + amount,
                     !.lastUpdated = IF position.debt > 0 THEN @ ELSE now]

\* the writes each function makes to positions[msg.sender]
deposited(position, amount) ==
    [position EXCEPT !.collateral = @ + amount, !.lastUpdated = now]

\* variant: borrow records the new amount in place of the running debt
borrowed_overwrites(position, amount) ==
    [position EXCEPT !.debt = amount, !.lastUpdated = now]

\* variant: borrow books the interest accrued so far into the debt
borrowed_capitalised(position, amount) ==
    [position EXCEPT
        !.debt = @ + amount + interestAt(@, position.lastUpdated, now),
        !.lastUpdated = now]

borrowed(position, amount) ==
    [position EXCEPT !.debt = @ + amount, !.lastUpdated = now]

\* variant: repay writes off the principal first borrowed and keeps the rest
repaid_partial(position) ==
    [position EXCEPT !.debt = IF @ > 11 THEN @ - 11 ELSE 0]

\* variant: repay restarts the interest clock
repaid_clockReset(position) == [position EXCEPT !.debt = 0, !.lastUpdated = now]

\* variant: repay closes the position altogether
repaid_closesPosition(position) == [position EXCEPT !.debt = 0, !.collateral = 0]

repaid(position) == [position EXCEPT !.debt = 0]

\* variant: withdrawCollateral deletes the position record
withdrawn_deleted(position) == UserPosition

withdrawn(position) == [position EXCEPT !.collateral = 0]

Event(name, user, amount) == [name |-> name, user |-> user, amount |-> amount]

\* the receipt of a transaction: the call, its outcome, the value a view
\* returns and the events the transaction emitted
Receipt(op, user, amount, result, ret, logs) ==
    [op |-> op, user |-> user, amount |-> amount, result |-> result,
     ret |-> ret, logs |-> logs]

----------------------------------------------------------------------------
(* The web app (web_app/src/App.tsx, web_app/src/utils/contract.ts): the   *)
(* wallet the browser offers, the contract instances the module keeps, the *)
(* state of App and the asynchronous calls that have not resolved yet.     *)

\* the page, as the originator of a call
Browser == "browser"

\* userAddress before a wallet is connected
NoAccount == "null"

\* the module-level instances of contract.ts, none of them assigned
NoContracts ==
    [provider |-> FALSE, signer |-> FALSE, collateralTokenContract |-> FALSE,
     loanTokenContract |-> FALSE, lendingProtocolContract |-> FALSE]

\* the state App is constructed with
InitialApp == [isConnected |-> FALSE, userAddress |-> NoAccount, isInitialized |-> FALSE]

\* the promises App awaits, by the call that made them, none outstanding
NothingPending ==
    [isWalletConnected |-> 0, getConnectedAccount |-> 0, getSigner |-> 0,
     accessible |-> 0]

\* the handlers of App that are suspended at an await
InFlight ==
    pending.isWalletConnected + pending.getConnectedAccount
        + pending.getSigner + pending.accessible

\* the account lists the wallet can expose
AccountLists == {<<>>} \cup {<<u>> : u \in Users}

----------------------------------------------------------------------------
\* a reverted transaction: nothing but the receipt changes
Revert(op, user, amount, err) ==
    /\ last' = Receipt(op, user, amount, err, <<>>, <<>>)
    /\ UNCHANGED <<webVars, positions, collateralToken, loanToken, now>>

Init ==
    /\ positions = [u \in Users |-> UserPosition]
    /\ collateralToken =
          [balance   |-> [h \in Holders |-> IF h = Ledger THEN 0 ELSE UserCollateral],
           allowance |-> [u \in Users |-> 0]]
    /\ loanToken =
          [balance   |-> [h \in Holders |-> IF h = Ledger THEN InitialLiquidity ELSE UserLoan],
           allowance |-> [u \in Users |-> 0]]
    /\ now = StartTime
    /\ last = Receipt("constructor", Ledger, 0, "ok", <<>>, <<>>)
    /\ ethereum = [installed |-> TRUE, accounts |-> <<>>]
    /\ contracts = NoContracts
    /\ app = InitialApp
    /\ pending = [NothingPending EXCEPT !.isWalletConnected = 1]
    /\ initializeContractsReturned = FALSE

\* variant: depositCollateral refuses an account that has debt
depositCollateral_debtFree(user, amount) ==
    LET err == IF positions[user].debt > 0 THEN "Outstanding debt"
               ELSE transferFromError(collateralToken, user, amount)
    IN
    IF err # "ok" THEN Revert("depositCollateral", user, amount, err)
    ELSE /\ collateralToken' = transferFrom(collateralToken, user, Ledger, amount)
         /\ positions' = [positions EXCEPT ![user] = deposited(@, amount)]
         /\ last' = Receipt("depositCollateral", user, amount, "ok", <<>>,
                            <<Event("Deposited", user, amount)>>)
         /\ UNCHANGED <<webVars, loanToken, now>>

\* variant: depositCollateral refuses an amount of 0
depositCollateral_positiveOnly(user, amount) ==
    LET err == IF ~(amount > 0) THEN "Amount must be greater than 0"
               ELSE transferFromError(collateralToken, user, amount)
    IN
    IF err # "ok" THEN Revert("depositCollateral", user, amount, err)
    ELSE /\ collateralToken' = transferFrom(collateralToken, user, Ledger, amount)
         /\ positions' = [positions EXCEPT ![user] = deposited(@, amount)]
         /\ last' = Receipt("depositCollateral", user, amount, "ok", <<>>,
                            <<Event("Deposited", user, amount)>>)
         /\ UNCHANGED <<webVars, loanToken, now>>

depositCollateral(user, amount) ==
    LET err == transferFromError(collateralToken, user, amount) IN
    IF err # "ok" THEN Revert("depositCollateral", user, amount, err)
    ELSE /\ collateralToken' = transferFrom(collateralToken, user, Ledger, amount)
         /\ positions' = [positions EXCEPT ![user] = deposited(@, amount)]
         /\ last' = Receipt("depositCollateral", user, amount, "ok", <<>>,
                            <<Event("Deposited", user, amount)>>)
         /\ UNCHANGED <<webVars, loanToken, now>>

\* borrow once both require statements have passed
borrowCommit(user, amount) ==
    /\ positions' = [positions EXCEPT ![user] = borrowed(@, amount)]
    /\ loanToken' = transfer(loanToken, Ledger, user, amount)
    /\ last' = Receipt("borrow", user, amount, "ok", <<>>,
                       <<Event("Borrowed", user, amount)>>)
    /\ UNCHANGED <<webVars, collateralToken, now>>

\* variant: the liquidity failure is reported after the position was written
\* and nothing undoes the write
borrow_noRollback(user, amount) ==
    LET err == borrowError(user, amount) IN
    IF err = "Insufficient liquidity"
        THEN /\ positions' = [positions EXCEPT ![user] = borrowed(@, amount)]
             /\ last' = Receipt("borrow", user, amount, err, <<>>, <<>>)
             /\ UNCHANGED <<webVars, collateralToken, loanToken, now>>
    ELSE IF err # "ok" THEN Revert("borrow", user, amount, err)
    ELSE borrowCommit(user, amount)

borrow(user, amount) ==
    LET err == borrowError(user, amount) IN
    IF err # "ok" THEN Revert("borrow", user, amount, err)
    ELSE borrowCommit(user, amount)

repay(user) ==
    LET err == repayError(user)
        totalAmount == repayTotalAmount(user)
    IN
    IF err # "ok" THEN Revert("repay", user, 0, err)
    ELSE /\ loanToken' = transferFrom(loanToken, user, Ledger, totalAmount)
         /\ positions' = [positions EXCEPT ![user] = repaid(@)]
         /\ last' = Receipt("repay", user, 0, "ok", <<>>,
                            <<Event("Repaid", user, totalAmount)>>)
         /\ UNCHANGED <<webVars, collateralToken, now>>

\* variant: withdrawCollateral emits Withdrawn with the collateral it reads
\* back after clearing it
withdrawCollateral_emitsAfterClear(user) ==
    LET err == withdrawError(user)
        amount == positions[user].collateral
    IN
    IF err # "ok" THEN Revert("withdrawCollateral", user, 0, err)
    ELSE /\ collateralToken' = transfer(collateralToken, Ledger, user, amount)
         /\ positions' = [positions EXCEPT ![user] = withdrawn(@)]
         /\ last' = Receipt("withdrawCollateral", user, 0, "ok", <<>>,
                            <<Event("Withdrawn", user,
                                    withdrawn(positions[user]).collateral)>>)
         /\ UNCHANGED <<webVars, loanToken, now>>

withdrawCollateral(user) ==
    LET err == withdrawError(user)
        amount == positions[user].collateral
    IN
    IF err # "ok" THEN Revert("withdrawCollateral", user, 0, err)
    ELSE /\ collateralToken' = transfer(collateralToken, Ledger, user, amount)
         /\ positions' = [positions EXCEPT ![user] = withdrawn(@)]
         /\ last' = Receipt("withdrawCollateral", user, 0, "ok", <<>>,
                            <<Event("Withdrawn", user, amount)>>)
         /\ UNCHANGED <<webVars, loanToken, now>>

\* variant: getUserPosition books the interest it reports into the debt
getUserPosition_accrues(user) ==
    /\ last' = Receipt("getUserPosition", user, 0, "ok",
                       <<positions[user].collateral, positions[user].debt,
                         calculateInterest(user)>>, <<>>)
    /\ positions' = [positions EXCEPT
                        ![user].debt = @ + calculateInterest(user)]
    /\ UNCHANGED <<webVars, collateralToken, loanToken, now>>

getUserPosition(user) ==
    /\ last' = Receipt("getUserPosition", user, 0, "ok",
                       <<positions[user].collateral, positions[user].debt,
                         calculateInterest(user)>>, <<>>)
    /\ UNCHANGED <<webVars, positions, collateralToken, loanToken, now>>

\* withdrawCollateral when the collateral token's transfer hands control to
\* the recipient before it returns, and the recipient calls withdrawCollateral
\* again: the outer call has passed its require statements and has not yet
\* written collateral = 0, so the inner call passes them on the same
\* position, transfers the same amount, writes and emits; then the outer call
\* writes and emits.  The inner transfer reverts, and the transaction with it,
\* when the ledger does not hold the amount a second time.
withdrawCollateralReentered(user) ==
    LET err == withdrawError(user)
        amount == positions[user].collateral
        afterOuter == transfer(collateralToken, Ledger, user, amount)
        innerErr == transferError(afterOuter, Ledger, amount)
    IN
    IF err # "ok" THEN Revert("withdrawCollateral", user, 0, err)
    ELSE IF innerErr # "ok" THEN Revert("withdrawCollateral", user, 0, innerErr)
    ELSE /\ collateralToken' = transfer(afterOuter, Ledger, user, amount)
         /\ positions' = [positions EXCEPT ![user] = withdrawn(withdrawn(@))]
         /\ last' = Receipt("withdrawCollateral", user, 0, "ok", <<>>,
                            <<Event("Withdrawn", user, amount),
                              Event("Withdrawn", user, amount)>>)
         /\ UNCHANGED <<webVars, loanToken, now>>

\* collateralToken.approve(ledger, amount) sent by user
approveCollateral(user, amount) ==
    /\ collateralToken' = approved(collateralToken, user, amount)
    /\ last' = Receipt("approveCollateral", user, amount, "ok", <<>>, <<>>)
    /\ UNCHANGED <<webVars, positions, loanToken, now>>

\* loanToken.approve(ledger, amount) sent by user
approveLoan(user, amount) ==
    /\ loanToken' = approved(loanToken, user, amount)
    /\ last' = Receipt("approveLoan", user, amount, "ok", <<>>, <<>>)
    /\ UNCHANGED <<webVars, positions, collateralToken, now>>

\* collateralToken.transfer(to, amount) sent by a user
transferCollateral(from, to, amount) ==
    LET err == transferError(collateralToken, from, amount) IN
    IF err # "ok" THEN Revert("transferCollateral", from, amount, err)
    ELSE /\ collateralToken' = transfer(collateralToken, from, to, amount)
         /\ last' = Receipt("transferCollateral", from, amount, "ok", <<to>>, <<>>)
         /\ UNCHANGED <<webVars, positions, loanToken, now>>

\* loanToken.transfer(to, amount) sent by a user
transferLoan(from, to, amount) ==
    LET err == transferError(loanToken, from, amount) IN
    IF err # "ok" THEN Revert("transferLoan", from, amount, err)
    ELSE /\ loanToken' = transfer(loanToken, from, to, amount)
         /\ last' = Receipt("transferLoan", from, amount, "ok", <<to>>, <<>>)
         /\ UNCHANGED <<webVars, positions, collateralToken, now>>

\* a later block is mined
timeTravel(t) ==
    /\ t > now
    /\ now' = t
    /\ last' = Receipt("timeTravel", Ledger, 0, "ok", <<>>, <<>>)
    /\ UNCHANGED <<webVars, positions, collateralToken, loanToken>>

\* the whole system: both accounts transact; blocks are mined on the week
\* boundaries
WeekTimes == {StartTime + k * SECONDS_PER_WEEK : k \in 0..MaxWeeks}

Next ==
    \/ \E u \in Users : depositCollateral(u, 16)
    \/ \E u \in Users, a \in {0, 11} : borrow(u, a)
    \/ \E u \in Users : repay(u)
    \/ \E u \in Users : withdrawCollateral(u)
    \/ \E u \in Users : getUserPosition(u)
    \/ \E u \in Users : approveCollateral(u, 16)
    \/ \E u \in Users : approveLoan(u, repayTotalAmount(u))
    \/ \E t \in WeekTimes : timeTravel(t)

Spec == Init /\ [][Next]_vars

\* one account transacts while the other stays idle
Solo == "user1"

SoloNext ==
    \/ \E a \in DepositAmounts : depositCollateral(Solo, a)
    \/ \E a \in BorrowAmounts : borrow(Solo, a)
    \/ repay(Solo)
    \/ withdrawCollateral(Solo)
    \/ \E u \in Users : getUserPosition(u)
    \/ \E a \in ApproveAmounts : approveCollateral(Solo, a)
    \/ \E a \in {0, repayTotalAmount(Solo)} : approveLoan(Solo, a)
    \/ \E t \in BlockTimes : timeTravel(t)

SoloSpec == Init /\ [][SoloNext]_vars

\* one account transacts and also moves its tokens itself, to the other
\* account or to itself
TokenNext ==
    \/ \E a \in {0, 16} : depositCollateral(Solo, a)
    \/ borrow(Solo, 11)
    \/ repay(Solo)
    \/ withdrawCollateral(Solo)
    \/ approveCollateral(Solo, 16)
    \/ approveLoan(Solo, repayTotalAmount(Solo))
    \/ \E to \in Users, a \in {0, 8} : transferCollateral(Solo, to, a)
    \/ \E to \in Users, a \in {0, 5} : transferLoan(Solo, to, a)
    \/ \E t \in WeekTimes : timeTravel(t)

TokenSpec == Init /\ [][TokenNext]_vars

\* the block mined one year, 52 whole weeks, after the first
YearTimes == {StartTime + 52 * SECONDS_PER_WEEK}

\* one account transacts and a year passes
YearNext ==
    \/ depositCollateral(Solo, 16)
    \/ borrow(Solo, 11)
    \/ repay(Solo)
    \/ withdrawCollateral(Solo)
    \/ getUserPosition(Solo)
    \/ approveCollateral(Solo, 16)
    \/ approveLoan(Solo, repayTotalAmount(Solo))
    \/ \E t \in YearTimes : timeTravel(t)

YearSpec == Init /\ [][YearNext]_vars

\* both accounts transact and the collateral token lets the recipient of a
\* transfer call the ledger back
ReentrantNext ==
    \/ \E u \in Users : depositCollateral(u, 16)
    \/ \E u \in Users : borrow(u, 11)
    \/ \E u \in Users : repay(u)
    \/ \E u \in Users : withdrawCollateral(u)
    \/ \E u \in Users : withdrawCollateralReentered(u)
    \/ \E u \in Users : approveCollateral(u, 16)
    \/ \E u \in Users : approveLoan(u, repayTotalAmount(u))

ReentrantSpec == Init /\ [][ReentrantNext]_vars

----------------------------------------------------------------------------
(* The web app's connection flow.  A handler runs until its next await;    *)
(* the promise it awaits resolves in a later step, and wallet events and   *)
(* other handlers run in between.                                          *)

\* the page is loaded, or reloaded, with or without a wallet extension: the
\* module and App start afresh, and App's effect calls checkConnection,
\* which suspends in isWalletConnected, and registers the listeners
reload(installed) ==
    /\ ethereum' = [installed |-> installed,
                    accounts  |-> IF installed THEN ethereum.accounts ELSE <<>>]
    /\ contracts' = NoContracts
    /\ app' = InitialApp
    /\ pending' = [NothingPending EXCEPT !.isWalletConnected = 1]
    /\ initializeContractsReturned' = FALSE
    /\ last' = Receipt("reload", Browser, 0, "ok", <<>>, <<>>)
    /\ UNCHANGED ledgerVars

\* checkConnection resumes with the answer of isWalletConnected
isWalletConnectedResolved ==
    /\ pending.isWalletConnected > 0
    /\ LET connected == ethereum.installed /\ ethereum.accounts # <<>>
       IN  /\ app' = [app EXCEPT !.isConnected = connected]
           /\ pending' = [pending EXCEPT
                            !.isWalletConnected = @ - 1,
                            !.getConnectedAccount = IF connected THEN @ + 1 ELSE @]
           /\ last' = Receipt("isWalletConnected", Browser, 0,
                              IF connected THEN "true" ELSE "false", <<>>, <<>>)
    /\ UNCHANGED <<ledgerVars, ethereum, contracts, initializeContractsReturned>>

\* checkConnection resumes with the answer of getConnectedAccount, stores
\* it and calls initializeContracts, which throws without a wallet and else
\* creates the provider and suspends in getSigner
getConnectedAccountResolved ==
    /\ pending.getConnectedAccount > 0
    /\ app' = [app EXCEPT !.userAddress =
                  IF ethereum.installed /\ ethereum.accounts # <<>>
                  THEN ethereum.accounts[1] ELSE NoAccount]
    /\ IF ethereum.installed
       THEN /\ contracts' = [contracts EXCEPT !.provider = TRUE]
            /\ pending' = [pending EXCEPT !.getConnectedAccount = @ - 1,
                                          !.getSigner = @ + 1]
            /\ last' = Receipt("getConnectedAccount", Browser, 0, "ok", <<>>, <<>>)
       ELSE /\ contracts' = contracts
            /\ pending' = [pending EXCEPT !.getConnectedAccount = @ - 1]
            /\ last' = Receipt("initializeContracts", Browser, 0,
                               "MetaMask is not installed", <<>>, <<>>)
    /\ UNCHANGED <<ledgerVars, ethereum, initializeContractsReturned>>

\* the wallet announces another account list to the listener App
\* registered: with an account, App stores it and calls
\* initializeContracts, which creates the provider and suspends in
\* getSigner; with none, App resets its state
accountsChanged(accounts) ==
    /\ ethereum.installed
    /\ accounts # ethereum.accounts
    /\ ethereum' = [ethereum EXCEPT !.accounts = accounts]
    /\ IF accounts # <<>>
       THEN /\ InFlight < MaxInFlight
            /\ app' = [app EXCEPT !.userAddress = accounts[1], !.isConnected = TRUE]
            /\ contracts' = [contracts EXCEPT !.provider = TRUE]
            /\ pending' = [pending EXCEPT !.getSigner = @ + 1]
            /\ last' = Receipt("accountsChanged", accounts[1], 0, "ok", <<>>, <<>>)
       ELSE /\ app' = [isConnected |-> FALSE, userAddress |-> NoAccount,
                       isInitialized |-> FALSE]
            /\ contracts' = contracts
            /\ pending' = pending
            /\ last' = Receipt("accountsChanged", NoAccount, 0, "ok", <<>>, <<>>)
    /\ UNCHANGED <<ledgerVars, initializeContractsReturned>>

\* an initializeContracts call resumes from getSigner: with a signer, which
\* the wallet gives only for a connected account, it assigns the signer and
\* the three contract instances and suspends in the accessibility test;
\* when the wallet refuses, it throws and the handler that called it logs
\* the error
getSignerResolved(ok) ==
    /\ pending.getSigner > 0
    /\ ok => ethereum.accounts # <<>>
    /\ IF ok
       THEN /\ contracts' = [contracts EXCEPT
                               !.signer = TRUE,
                               !.collateralTokenContract = TRUE,
                               !.loanTokenContract = TRUE,
                               !.lendingProtocolContract = TRUE]
            /\ pending' = [pending EXCEPT !.getSigner = @ - 1, !.accessible = @ + 1]
            /\ last' = Receipt("getSigner", Browser, 0, "ok", <<>>, <<>>)
       ELSE /\ contracts' = contracts
            /\ pending' = [pending EXCEPT !.getSigner = @ - 1]
            /\ last' = Receipt("initializeContracts", Browser, 0,
                               "getSigner rejected", <<>>, <<>>)
    /\ UNCHANGED <<ledgerVars, ethereum, app, initializeContractsReturned>>

\* an initializeContracts call resumes from its accessibility test: when
\* the three reads succeeded it returns and the handler that called it sets
\* isInitialized; when one failed it throws and the handler logs the error
accessibilityResolved(ok) ==
    /\ pending.accessible > 0
    /\ pending' = [pending EXCEPT !.accessible = @ - 1]
    /\ IF ok
       THEN /\ app' = [app EXCEPT !.isInitialized = TRUE]
            /\ initializeContractsReturned' = TRUE
            /\ last' = Receipt("initializeContracts", Browser, 0, "ok", <<>>, <<>>)
       ELSE /\ app' = app
            /\ initializeContractsReturned' = initializeContractsReturned
            /\ last' = Receipt("initializeContracts", Browser, 0,
                               "Failed to initialize contracts", <<>>, <<>>)
    /\ UNCHANGED <<ledgerVars, ethereum, contracts>>

getContractsError ==
    IF \/ ~contracts.collateralTokenContract
       \/ ~contracts.loanTokenContract
       \/ ~contracts.lendingProtocolContract
    THEN "Contracts not initialized"
    ELSE "ok"

getContracts ==
    /\ last' = Receipt("getContracts", Browser, 0, getContractsError, <<>>, <<>>)
    /\ UNCHANGED <<ledgerVars, webVars>>

AppNext ==
    \/ \E installed \in BOOLEAN : reload(installed)
    \/ isWalletConnectedResolved
    \/ getConnectedAccountResolved
    \/ \E accounts \in AccountLists : accountsChanged(accounts)
    \/ \E ok \in BOOLEAN : getSignerResolved(ok)
    \/ \E ok \in BOOLEAN : accessibilityResolved(ok)
    \/ getContracts

AppSpec == Init /\ [][AppNext]_vars

----------------------------------------------------------------------------
(* Properties                                                              *)

\* the caller and the outcome of the transaction that a step performs
Caller == last'.user

Succeeds == last'.result = "ok"

\* C1: borrow(account, amount) succeeds if and only if the account's
\* collateral is at least floor(amount * 150 / 100) and the ledger holds at
\* least amount of the loan asset; collateral exactly equal to the floor
\* succeeds.
C1_BorrowIff ==
    [][last'.op = "borrow" =>
        (Succeeds <=>
            /\ positions[Caller].collateral >= (last'.amount * 150) \div 100
            /\ loanToken.balance[Ledger] >= last'.amount)]_vars

\* a borrow that succeeded with collateral exactly floor(amount * 150 / 100),
\* where amount * 150 / 100 is not a whole number
C1_Witness ==
    /\ last.op = "borrow" /\ last.result = "ok"
    /\ (last.amount * 150) % 100 # 0
    /\ positions[last.user].collateral = (last.amount * 150) \div 100

\* C2: withdrawCollateral succeeds if and only if debt = 0 and collateral > 0;
\* it fails with "Outstanding debt" whenever debt # 0 and with "No collateral"
\* when debt = 0 and collateral = 0, and a failure changes no position and no
\* balance.
C2_WithdrawIff ==
    [][last'.op = "withdrawCollateral" =>
        LET p == positions[Caller] IN
        /\ Succeeds <=> (p.debt = 0 /\ p.collateral > 0)
        /\ p.debt # 0 => last'.result = "Outstanding debt"
        /\ (p.debt = 0 /\ p.collateral = 0) => last'.result = "No collateral"
        /\ ~Succeeds => /\ positions' = positions
                        /\ collateralToken' = collateralToken
                        /\ loanToken' = loanToken]_vars

\* a withdraw attempted from the Borrowed state was refused
C2_Witness ==
    /\ last.op = "withdrawCollateral" /\ last.result = "Outstanding debt"
    /\ positions[last.user].debt > 0 /\ positions[last.user].collateral > 0

\* C3: every position is Empty (collateral = 0, debt = 0), Collateralized
\* (collateral > 0, debt = 0) or Borrowed (collateral > 0, debt > 0): no
\* position has debt > 0 and collateral = 0.
C3_ThreeStates ==
    \A u \in Users :
        LET p == positions[u] IN
        \/ p.collateral = 0 /\ p.debt = 0
        \/ p.collateral > 0 /\ p.debt = 0
        \/ p.collateral > 0 /\ p.debt > 0

\* one account is Borrowed while the other has gone back to Empty through a
\* withdraw
C3_Witness ==
    \E u, v \in Users :
        /\ positions[u].collateral > 0 /\ positions[u].debt > 0
        /\ positions[v].collateral = 0 /\ positions[v].debt = 0
        /\ last.op = "withdrawCollateral" /\ last.result = "ok" /\ last.user = v

\* C4: collateral and debt are never negative, and a step changes a field
\* only by adding the amount of a deposit (collateral) or a borrow (debt) of
\* that account, or by resetting it to 0 in a withdraw (collateral) or a
\* repay (debt) of that account.
C4_AddOrClear ==
    [][\A u \in Users :
        LET p == positions[u]
            q == positions'[u]
        IN
        /\ q.collateral >= 0 /\ q.debt >= 0
        /\ q.collateral # p.collateral =>
              /\ Caller = u /\ Succeeds
              /\ \/ last'.op = "depositCollateral"
                    /\ q.collateral = p.collateral + last'.amount
                 \/ last'.op = "withdrawCollateral" /\ q.collateral = 0
        /\ q.debt # p.debt =>
              /\ Caller = u /\ Succeeds
              /\ \/ last'.op = "borrow" /\ q.debt = p.debt + last'.amount
                 \/ last'.op = "repay" /\ q.debt = 0]_vars

\* a repay has cleared a debt that two borrows had built up
C4_Witness ==
    /\ last.op = "repay" /\ last.result = "ok"
    /\ last.logs[1].amount >= 22
    /\ positions[last.user].debt = 0

\* C5: a call that fails changes no position, no balance and no allowance of
\* either asset, and emits no event.
C5_AllOrNothing ==
    [][~Succeeds =>
        /\ positions' = positions
        /\ collateralToken' = collateralToken
        /\ loanToken' = loanToken
        /\ now' = now
        /\ last'.logs = <<>>]_vars

\* a borrow that passed the collateral check was refused for lack of
\* liquidity
C5_Witness ==
    /\ last.op = "borrow" /\ last.result = "Insufficient liquidity"
    /\ positions[last.user].collateral >= (last.amount * 150) \div 100

\* C6: a successful repay moves exactly debt + interest of the loan asset
\* from the account into the ledger's custody, sets debt to 0 and leaves
\* collateral unchanged; a getUserPosition of that account that follows it
\* immediately reports debt 0 and interest 0.
C6_RepayMovesDebtPlusInterest ==
    [][/\ (last'.op = "repay" /\ Succeeds) =>
            LET p == positions[Caller]
                weeks == (now - p.lastUpdated) \div 604800
                total == p.debt + (p.debt * 5 * weeks) \div 100
            IN
            /\ loanToken'.balance[Caller] = loanToken.balance[Caller] - total
            /\ loanToken'.balance[Ledger] = loanToken.balance[Ledger] + total
            /\ positions'[Caller].debt = 0
            /\ positions'[Caller].collateral = p.collateral
       /\ (/\ last.op = "repay" /\ last.result = "ok"
           /\ last'.op = "getUserPosition" /\ Caller = last.user) =>
            last'.ret[2] = 0 /\ last'.ret[3] = 0]_vars

\* a repay of debt 22 with interest 1 has moved 23
C6_Witness ==
    /\ last.op = "repay" /\ last.result = "ok"
    /\ last.logs = <<Event("Repaid", last.user, 23)>>
    /\ positions[last.user].debt = 0

\* C7: the interest getUserPosition reports is 0 when debt = 0 and otherwise
\* floor(debt * 5 * floor((now - lastUpdated) / 604800) / 100), multiplied
\* before the one division by 100; debt 1000 gives 50 after one week, 150
\* after three weeks and 0 one second before the first week ends.
C7_InterestFormula ==
    /\ last.op = "getUserPosition" =>
          LET p == positions[last.user] IN
          /\ last.ret[2] = p.debt
          /\ last.ret[3] =
                IF p.debt = 0 THEN 0
                ELSE (p.debt * 5 * ((now - p.lastUpdated) \div 604800)) \div 100
    /\ interestAt(1000, now, now + 604800) = 50
    /\ interestAt(1000, now, now + 3 * 604800) = 150
    /\ interestAt(1000, now, now + 604799) = 0

\* getUserPosition reported interest 1 on debt 11 (two weeks; one week's
\* interest on 11 rounds down to 0)
C7_Witness ==
    /\ last.op = "getUserPosition"
    /\ last.ret[2] = 11 /\ last.ret[3] = 1

\* whole weeks elapsed since the account's lastUpdated
WeeksSince(u) == (now - positions[u].lastUpdated) \div 604800

\* what a step may do to the interest reported for account u
StepLaw(u) ==
    /\ now' - positions'[u].lastUpdated < 604800 => calculateInterest(u)' = 0
    /\ calculateInterest(u)' >= calculateInterest(u)
    /\ calculateInterest(u)' # calculateInterest(u) =>
          /\ WeeksSince(u)' > WeeksSince(u)
          /\ calculateInterest(u)' - calculateInterest(u) =
                (positions[u].debt * 5 * WeeksSince(u)') \div 100
                    - (positions[u].debt * 5 * WeeksSince(u)) \div 100

\* C8 as stated: while the account makes no deposit and no borrow, the
\* interest reported is 0 less than one week after lastUpdated, never
\* decreases, and changes only when a week boundary is crossed.
C8_StepWhileNoDepositOrBorrow ==
    [][\A u \in Users :
        ~(/\ Caller = u /\ Succeeds
          /\ last'.op \in {"depositCollateral", "borrow"}) => StepLaw(u)]_vars

\* C8: while the account makes no deposit, no borrow and no repay, the
\* interest reported is 0 less than one week after lastUpdated, never
\* decreases, and changes only when a week boundary is crossed, by the
\* difference of the rounded-down interest of the two week counts.
C8_StepWhileNoDepositBorrowOrRepay ==
    [][\A u \in Users :
        ~(/\ Caller = u /\ Succeeds
          /\ last'.op \in {"depositCollateral", "borrow", "repay"}) => StepLaw(u)]_vars

\* the clock has just crossed a week boundary of a debt and its interest has
\* stepped up from 0
C8_Witness ==
    /\ last.op = "timeTravel"
    /\ \E u \in Users :
          /\ positions[u].debt > 0
          /\ now - positions[u].lastUpdated = 604800
          /\ calculateInterest(u) = 1

\* C9: a successful withdrawCollateral moves exactly the stored collateral
\* from the ledger's custody to the account, sets collateral to 0 and leaves
\* debt (which is 0) and lastUpdated unchanged.
C9_WithdrawMovesCollateral ==
    [][(last'.op = "withdrawCollateral" /\ Succeeds) =>
        LET p == positions[Caller]
            q == positions'[Caller]
        IN
        /\ collateralToken'.balance[Caller] =
              collateralToken.balance[Caller] + p.collateral
        /\ collateralToken'.balance[Ledger] =
              collateralToken.balance[Ledger] - p.collateral
        /\ q.collateral = 0
        /\ p.debt = 0 /\ q.debt = 0
        /\ q.lastUpdated = p.lastUpdated]_vars

\* a withdraw has paid out the collateral of a position whose debt had been
\* repaid
C9_Witness ==
    /\ last.op = "withdrawCollateral" /\ last.result = "ok"
    /\ last.logs[1].amount > 0
    /\ positions[last.user].collateral = 0
    /\ loanToken.balance[Ledger] > InitialLiquidity

\* C10: a successful depositCollateral adds exactly amount to the account's
\* collateral, sets lastUpdated to now, moves exactly amount of the
\* collateral asset from the account into the ledger's custody, and leaves
\* the account's debt and every loan-asset balance unchanged.
C10_DepositEffect ==
    [][(last'.op = "depositCollateral" /\ Succeeds) =>
        LET p == positions[Caller]
            q == positions'[Caller]
            a == last'.amount
        IN
        /\ q.collateral = p.collateral + a
        /\ q.lastUpdated = now
        /\ q.debt = p.debt
        /\ collateralToken'.balance[Caller] = collateralToken.balance[Caller] - a
        /\ collateralToken'.balance[Ledger] = collateralToken.balance[Ledger] + a
        /\ loanToken'.balance = loanToken.balance]_vars

\* a deposit of a positive amount into a position that owes debt, later
\* than the borrow
C10_Witness ==
    /\ last.op = "depositCollateral" /\ last.result = "ok"
    /\ last.amount > 0
    /\ positions[last.user].debt > 0
    /\ positions[last.user].lastUpdated > StartTime

\* C11: depositCollateral has no precondition but the move of the asset.  It
\* succeeds exactly when the caller's collateral-token allowance to the ledger
\* and the caller's collateral-token balance both cover the amount, whatever
\* collateral and debt the position holds; a refused deposit reports
\* ERC20InsufficientAllowance only when the allowance is short and
\* ERC20InsufficientBalance only when the balance is short, and one of the
\* two is reported.
C11_DepositIffAssetMoves ==
    [][last'.op = "depositCollateral" =>
        /\ Succeeds <=>
              /\ collateralToken.allowance[Caller] >= last'.amount
              /\ collateralToken.balance[Caller] >= last'.amount
        /\ last'.result \in
              {"ok", "ERC20InsufficientAllowance", "ERC20InsufficientBalance"}
        /\ last'.result = "ERC20InsufficientAllowance" =>
              collateralToken.allowance[Caller] < last'.amount
        /\ last'.result = "ERC20InsufficientBalance" =>
              collateralToken.balance[Caller] < last'.amount]_vars

\* a deposit into a position that carries debt has been refused for lack of
\* balance alone
C11_Witness ==
    /\ last.op = "depositCollateral"
    /\ last.result = "ERC20InsufficientBalance"
    /\ positions[last.user].debt > 0

\* C12: a successful borrow of amount at time now adds exactly amount to the
\* caller's debt, sets the caller's lastUpdated to now, takes exactly amount
\* out of the loan tokens the ledger holds, adds exactly amount to the
\* caller's loan-token balance and leaves the caller's collateral unchanged.
C12_BorrowEffect ==
    [][(last'.op = "borrow" /\ Succeeds) =>
        /\ positions'[Caller].debt = positions[Caller].debt + last'.amount
        /\ positions'[Caller].lastUpdated = now
        /\ loanToken'.balance[Ledger] = loanToken.balance[Ledger] - last'.amount
        /\ loanToken'.balance[Caller] = loanToken.balance[Caller] + last'.amount
        /\ positions'[Caller].collateral = positions[Caller].collateral]_vars

\* a second borrow has been added to an existing debt in a later block
C12_Witness ==
    /\ last.op = "borrow"
    /\ last.result = "ok"
    /\ last.amount > 0
    /\ positions[last.user].debt > last.amount
    /\ positions[last.user].lastUpdated = now
    /\ now > StartTime

\* the state in which the deposit recorded by receipt r began, rebuilt from
\* the state it left
StartPosition(r) == [positions[r.user] EXCEPT !.collateral = @ - r.amount]

StartToken(r) ==
    [collateralToken EXCEPT
        !.balance = moveBalance(@, Ledger, r.user, r.amount),
        !.allowance[r.user] = @ + r.amount]

\* depositCollateral(x) then depositCollateral(y) by user, against one
\* depositCollateral(x + y), all three run from the current state
DepositsAddUp(user, x, y) ==
    LET token1    == transferFrom(collateralToken, user, Ledger, x)
        position1 == deposited(positions[user], x)
        token2    == transferFrom(token1, user, Ledger, y)
        position2 == deposited(position1, y)
        tokenS    == transferFrom(collateralToken, user, Ledger, x + y)
        positionS == deposited(positions[user], x + y)
    IN  (/\ transferFromError(collateralToken, user, x) = "ok"
         /\ transferFromError(token1, user, y) = "ok"
         /\ transferFromError(collateralToken, user, x + y) = "ok")
        => /\ position2.collateral = positionS.collateral
           /\ token2.balance = tokenS.balance

\* C13: deposits are additive.  From every reachable state and for every
\* account and amounts X and Y, a successful deposit of X followed by a
\* successful deposit of Y leaves the same collateral and the same token
\* balances as one successful deposit of X + Y from that state; and whenever an
\* account's successful deposit of X is directly followed by its successful
\* deposit of Y, the collateral and the balances after the second equal those
\* of one deposit of X + Y made from the state in which the first began.
C13_DepositsAdditive ==
    [][/\ \A u \in Users, x \in DepositAmounts, y \in DepositAmounts :
              DepositsAddUp(u, x, y)
       /\ (/\ last.op = "depositCollateral" /\ last.result = "ok"
           /\ last'.op = "depositCollateral" /\ Succeeds
           /\ Caller = last.user)
          => /\ positions'[Caller].collateral =
                   deposited(StartPosition(last),
                             last.amount + last'.amount).collateral
             /\ collateralToken'.balance =
                   transferFrom(StartToken(last), Caller, Ledger,
                                last.amount + last'.amount).balance]_vars

\* two deposits of 8 made on one approval of 16 have built a collateral of 16
C13_Witness ==
    /\ last.op = "depositCollateral"
    /\ last.result = "ok"
    /\ last.amount = 8
    /\ positions[last.user].collateral = 16
    /\ collateralToken.balance[Ledger] = 16
    /\ collateralToken.allowance[last.user] = 0

\* what a call by account u does to u's own position, written over u's own
\* position, balances and allowances, the clock and, for borrow, whether the
\* ledger holds the requested loan tokens
OwnOutcome(u) ==
    LET p  == positions[u]
        a  == last'.amount
        ok == CASE last'.op = "depositCollateral" ->
                      /\ collateralToken.allowance[u] >= a
                      /\ collateralToken.balance[u] >= a
                [] last'.op = "borrow" ->
                      /\ p.collateral >= (a * 150) \div 100
                      /\ loanToken.balance[Ledger] >= a
                [] last'.op = "repay" ->
                      LET total == p.debt +
                                   (p.debt * 5 * WeeksSince(u)) \div 100
                      IN  /\ p.debt > 0
                          /\ loanToken.allowance[u] >= total
                          /\ loanToken.balance[u] >= total
                [] last'.op = "withdrawCollateral" ->
                      p.debt = 0 /\ p.collateral > 0
                [] OTHER -> FALSE
    IN  IF ~ok THEN p
        ELSE CASE last'.op = "depositCollateral" ->
                      [p EXCEPT !.collateral = @ + a, !.lastUpdated = now]
               [] last'.op = "borrow" ->
                      [p EXCEPT !.debt = @ + a, !.lastUpdated = now]
               [] last'.op = "repay" -> [p EXCEPT !.debt = 0]
               [] last'.op = "withdrawCollateral" -> [p EXCEPT !.collateral = 0]

\* C14: accounts do not interfere.  An operation invoked by account A,
\* successful or failed, leaves the collateral, debt and lastUpdated of every
\* other account unchanged, and what it does to A's own position is a function
\* of A's own position, balances and allowances, the clock and, for a borrow,
\* whether the ledger holds enough loan tokens; so an account's position after
\* any interleaving is the one its own operations produce alone, as long as no
\* borrow of its is decided by the liquidity.
C14_AccountsIndependent ==
    [][/\ \A u \in Users \ {Caller} : positions'[u] = positions[u]
       /\ Caller \in Users => positions'[Caller] = OwnOutcome(Caller)]_vars

\* an account has borrowed while the other account holds collateral and debt
C14_Witness ==
    /\ last.op = "borrow"
    /\ last.result = "ok"
    /\ last.amount > 0
    /\ \E u \in Users \ {last.user} :
          positions[u].collateral > 0 /\ positions[u].debt > 0

\* C15: getUserPosition is free of side effects and idempotent.  A call, for
\* any account, changes no field of any position, no token balance or
\* allowance and not the clock, and emits no event; and a call that directly
\* follows a call for the same account, nothing having happened in between,
\* returns the same triple (collateral, debt, interest), the triple being read
\* off the position and the clock.
C15_GetPositionPure ==
    [][last'.op = "getUserPosition" =>
        /\ positions' = positions
        /\ collateralToken' = collateralToken
        /\ loanToken' = loanToken
        /\ now' = now
        /\ last'.logs = <<>>
        /\ Succeeds
        /\ last'.ret = <<positions[Caller].collateral, positions[Caller].debt,
                         (positions[Caller].debt * 5 * WeeksSince(Caller)) \div 100>>
        /\ (last.op = "getUserPosition" /\ last.user = Caller)
              => last'.ret = last.ret]_vars

\* a position with debt has been read while interest stands accrued on it
C15_Witness ==
    /\ last.op = "getUserPosition"
    /\ last.ret = <<16, 22, 1>>

\* C16: an account's lastUpdated is written exactly by that account's
\* successful depositCollateral and successful borrow, which set it to the
\* current time; repay, withdrawCollateral, getUserPosition, every failed
\* operation and every operation of another account leave it unchanged.
C16_LastUpdatedWrites ==
    [][\A u \in Users :
          IF /\ Caller = u
             /\ last'.op \in {"depositCollateral", "borrow"}
             /\ Succeeds
          THEN positions'[u].lastUpdated = now
          ELSE positions'[u].lastUpdated = positions[u].lastUpdated]_vars

\* a repay has succeeded in a block later than the one lastUpdated names
C16_Witness ==
    /\ last.op = "repay"
    /\ last.result = "ok"
    /\ positions[last.user].lastUpdated < now
    /\ positions[last.user].lastUpdated > 0

\* C17: depositing restarts the interest clock on existing debt.  When an
\* account with debt > 0, whatever interest has accrued on it, makes a
\* successful deposit at time t, the debt is unchanged and the interest at t is
\* 0; a getUserPosition that directly follows reports that debt and interest
\* 0; and a successful repay made less than 604800 seconds after lastUpdated
\* moves exactly the principal from the account to the ledger.
C17_DepositResetsClock ==
    [][\A u \in Users :
          /\ (/\ last'.op = "depositCollateral" /\ Succeeds /\ Caller = u
              /\ positions[u].debt > 0)
             => /\ positions'[u].debt = positions[u].debt
                /\ (positions'[u].debt * 5 * WeeksSince(u)') \div 100 = 0
          /\ (/\ last.op = "depositCollateral" /\ last.result = "ok"
              /\ last.user = u /\ positions[u].debt > 0
              /\ last'.op = "getUserPosition" /\ Caller = u)
             => /\ last'.ret[2] = positions[u].debt
                /\ last'.ret[3] = 0
          /\ (/\ last'.op = "repay" /\ Succeeds /\ Caller = u
              /\ now - positions[u].lastUpdated < 604800)
             => /\ loanToken'.balance[Ledger] =
                      loanToken.balance[Ledger] + positions[u].debt
                /\ loanToken'.balance[u] =
                      loanToken.balance[u] - positions[u].debt
                /\ last'.logs = <<Event("Repaid", u, positions[u].debt)>>]_vars

\* a deposit has been accepted into a position with debt, two weeks or more
\* after the start
C17_Witness ==
    /\ last.op = "depositCollateral"
    /\ last.result = "ok"
    /\ last.amount > 0
    /\ positions[last.user].debt > 0
    /\ positions[last.user].lastUpdated = now
    /\ now >= StartTime + 2 * 604800

\* C18: the collateral check of borrow reads the newly requested amount only,
\* never the debt there is.  A borrow by an account that already has debt is
\* refused for insufficient collateral exactly when its collateral is below
\* floor(amount * 150 / 100), and otherwise succeeds exactly when the ledger
\* holds the amount: the outcome is fixed by collateral, amount and liquidity,
\* so two states that differ in the debt alone get the same outcome.
C18_CheckIgnoresDebt ==
    [][(last'.op = "borrow" /\ positions[Caller].debt > 0) =>
        last'.result =
            IF positions[Caller].collateral < (last'.amount * 150) \div 100
                THEN "Insufficient collateral"
            ELSE IF loanToken.balance[Ledger] < last'.amount
                THEN "Insufficient liquidity"
            ELSE "ok"]_vars

\* successive borrows have built a debt above floor(collateral * 100 / 150)
C18_Witness ==
    /\ last.op = "borrow"
    /\ last.result = "ok"
    /\ last.amount > 0
    /\ positions[last.user].debt > last.amount
    /\ positions[last.user].debt > (positions[last.user].collateral * 100) \div 150

\* the three states of a position (a position with debt and no collateral is
\* in none of them)
StateOf(position) ==
    IF position.collateral = 0 /\ position.debt = 0 THEN "Empty"
    ELSE IF position.collateral > 0 /\ position.debt = 0 THEN "Collateralized"
    ELSE IF position.collateral > 0 /\ position.debt > 0 THEN "Borrowed"
    ELSE "none"

\* C19 as stated: a borrow by an account whose position is Empty fails with
\* "Insufficient collateral", for every requested amount.
C19_EmptyBorrowAlwaysFails ==
    [][(last'.op = "borrow" /\ StateOf(positions[Caller]) = "Empty") =>
        last'.result = "Insufficient collateral"]_vars

\* C19, amended: a borrow of an amount of at least 1 by an account whose
\* position is Empty fails with "Insufficient collateral", also when the
\* ledger does not hold the amount; a borrow of 0 by such an account succeeds.
C19_EmptyBorrowFailsUnlessZero ==
    [][(last'.op = "borrow" /\ StateOf(positions[Caller]) = "Empty") =>
        last'.result =
            IF last'.amount >= 1 THEN "Insufficient collateral" ELSE "ok"]_vars

\* an Empty account has asked for more than the ledger holds and has been
\* refused for its collateral
C19_Witness ==
    /\ last.op = "borrow"
    /\ last.result = "Insufficient collateral"
    /\ StateOf(positions[last.user]) = "Empty"
    /\ last.amount > loanToken.balance[Ledger]

\* the transitions the state machine lists, as <<from, operation, to>>
ListedTransitions ==
    {<<"Empty", "depositCollateral", "Collateralized">>,
     <<"Collateralized", "borrow", "Borrowed">>,
     <<"Borrowed", "borrow", "Borrowed">>,
     <<"Borrowed", "repay", "Collateralized">>,
     <<"Collateralized", "withdrawCollateral", "Empty">>}

\* successful calls that leave the state as it was and are not listed
KeepingTransitions ==
    {<<"Empty", "depositCollateral", "Empty">>,
     <<"Collateralized", "depositCollateral", "Collateralized">>,
     <<"Borrowed", "depositCollateral", "Borrowed">>,
     <<"Empty", "borrow", "Empty">>,
     <<"Collateralized", "borrow", "Collateralized">>}

\* the transition the caller's position makes in a step
StepTransition ==
    <<StateOf(positions[Caller]), last'.op, StateOf(positions'[Caller])>>

Transacts ==
    last'.op \in {"depositCollateral", "borrow", "repay", "withdrawCollateral"}

\* C20 as stated: every successful depositCollateral, borrow, repay or
\* withdrawCollateral takes the caller's position through one of the five
\* listed transitions; no other pair of operation and state changes or keeps a
\* state.
C20_OnlyListedTransitions ==
    [][(Transacts /\ Succeeds) => StepTransition \in ListedTransitions]_vars

\* C20, amended: a position changes state only by Empty to Collateralized
\* (deposit), Collateralized to Borrowed (borrow), Borrowed to Collateralized
\* (repay) and Collateralized to Empty (withdraw); no operation moves it from
\* Empty to Borrowed or from Borrowed to Empty.  A successful call otherwise
\* keeps the state: a borrow or a deposit in Borrowed, a deposit in
\* Collateralized, and with amount 0 a deposit in Empty and a borrow in Empty
\* or Collateralized.  A failed call, a call of another account, an approval,
\* a getUserPosition and the passing of time keep the state of a position.
C20_Transitions ==
    [][/\ (Transacts /\ Succeeds) =>
            /\ StepTransition \in ListedTransitions \cup KeepingTransitions
            /\ StepTransition \in
                  {<<"Empty", "depositCollateral", "Empty">>,
                   <<"Empty", "borrow", "Empty">>,
                   <<"Collateralized", "borrow", "Collateralized">>}
                  => last'.amount = 0
       /\ \A u \in Users :
             StateOf(positions'[u]) # StateOf(positions[u]) =>
                /\ Caller = u /\ Transacts /\ Succeeds
                /\ <<StateOf(positions[u]), last'.op, StateOf(positions'[u])>>
                      \in ListedTransitions]_vars

\* a deposit has been accepted into a Borrowed position, which it has left
\* Borrowed
C20_Witness ==
    /\ last.op = "depositCollateral"
    /\ last.result = "ok"
    /\ last.amount > 0
    /\ StateOf(positions[last.user]) = "Borrowed"

\* C21: repay fails with "No debt to repay" whenever the caller's debt is 0,
\* whatever loan tokens the caller holds and has approved; when the debt is
\* positive it fails exactly when the caller cannot supply debt + interest,
\* with ERC20InsufficientAllowance when the allowance is short of it and with
\* ERC20InsufficientBalance when the allowance covers it and the balance does
\* not; a failed repay moves no token.
C21_RepayErrors ==
    [][last'.op = "repay" =>
        LET debt  == positions[Caller].debt
            total == debt + (debt * 5 * WeeksSince(Caller)) \div 100
        IN  /\ last'.result =
                  IF debt = 0 THEN "No debt to repay"
                  ELSE IF loanToken.allowance[Caller] < total
                      THEN "ERC20InsufficientAllowance"
                  ELSE IF loanToken.balance[Caller] < total
                      THEN "ERC20InsufficientBalance"
                  ELSE "ok"
            /\ ~Succeeds => loanToken' = loanToken /\ positions' = positions]_vars

\* a repay has been refused for the balance alone: the debt is positive, the
\* allowance covers debt + interest and the caller holds less than that
C21_Witness ==
    /\ last.op = "repay"
    /\ last.result = "ERC20InsufficientBalance"
    /\ positions[last.user].debt > 0
    /\ loanToken.allowance[last.user] >= repayTotalAmount(last.user)
    /\ loanToken.balance[last.user] < repayTotalAmount(last.user)

\* the event a successful call has to emit: its name, and the amount the call
\* moved into or out of the ledger
EventName ==
    CASE last'.op = "depositCollateral" -> "Deposited"
      [] last'.op = "borrow" -> "Borrowed"
      [] last'.op = "repay" -> "Repaid"
      [] last'.op = "withdrawCollateral" -> "Withdrawn"

AmountMoved ==
    CASE last'.op = "depositCollateral" ->
              collateralToken'.balance[Ledger] - collateralToken.balance[Ledger]
      [] last'.op = "borrow" ->
              loanToken.balance[Ledger] - loanToken'.balance[Ledger]
      [] last'.op = "repay" ->
              loanToken'.balance[Ledger] - loanToken.balance[Ledger]
      [] last'.op = "withdrawCollateral" ->
              collateralToken.balance[Ledger] - collateralToken'.balance[Ledger]

\* C22: every successful depositCollateral, borrow, repay and
\* withdrawCollateral emits exactly one event, which carries the caller and
\* the amount actually moved: Deposited(caller, amount), Borrowed(caller,
\* amount), Repaid(caller, debt + interest), Withdrawn(caller, collateral
\* withdrawn); a failed call, getUserPosition and everything that is not a
\* call of the ledger emit none.
C22_OneEventPerSuccess ==
    [][IF Transacts /\ Succeeds
       THEN /\ last'.logs =
                  <<[name |-> EventName, user |-> Caller, amount |-> AmountMoved]>>
            /\ last'.op \in {"depositCollateral", "borrow"} =>
                  AmountMoved = last'.amount
            /\ last'.op = "repay" =>
                  AmountMoved = positions[Caller].debt +
                      (positions[Caller].debt * 5 * WeeksSince(Caller)) \div 100
            /\ last'.op = "withdrawCollateral" =>
                  AmountMoved = positions[Caller].collateral
       ELSE last'.logs = <<>>]_vars

\* a repay has emitted Repaid with the principal 11 and the interest 1
C22_Witness ==
    /\ last.op = "repay"
    /\ last.result = "ok"
    /\ last.logs = <<[name |-> "Repaid", user |-> last.user, amount |-> 12]>>

\* C24: the loan tokens the ledger holds are the only resource accounts share.
\* A call changes no token balance and no allowance of an account other than
\* the caller; a borrow succeeds only for an amount the ledger holds at that
\* moment and takes exactly that amount out, so the ledger's balance never
\* goes negative and what is disbursed never exceeds what was available; a
\* borrow that the caller's collateral covers and the ledger no longer holds,
\* because an earlier borrow took it, fails with "Insufficient liquidity" and
\* changes nothing.
C24_SharedCustody ==
    [][/\ \A u \in Users \ {Caller} :
             /\ loanToken'.balance[u] = loanToken.balance[u]
             /\ loanToken'.allowance[u] = loanToken.allowance[u]
             /\ collateralToken'.balance[u] = collateralToken.balance[u]
             /\ collateralToken'.allowance[u] = collateralToken.allowance[u]
       /\ loanToken.balance[Ledger] >= 0
       /\ loanToken'.balance[Ledger] >= 0
       /\ last'.op = "borrow" =>
             /\ Succeeds =>
                   /\ last'.amount <= loanToken.balance[Ledger]
                   /\ loanToken'.balance[Ledger] =
                         loanToken.balance[Ledger] - last'.amount
             /\ (/\ positions[Caller].collateral >= (last'.amount * 150) \div 100
                 /\ last'.amount > loanToken.balance[Ledger])
                => /\ last'.result = "Insufficient liquidity"
                   /\ positions' = positions
                   /\ loanToken' = loanToken
                   /\ collateralToken' = collateralToken]_vars

\* two borrows fitted the ledger's balance one at a time and not together: the
\* other account was served, and the caller, whose collateral covers the
\* amount, has been refused for liquidity
C24_Witness ==
    /\ last.op = "borrow"
    /\ last.result = "Insufficient liquidity"
    /\ positions[last.user].collateral >= (last.amount * 150) \div 100
    /\ \E u \in Users \ {last.user} :
          /\ positions[u].debt >= last.amount
          /\ loanToken.balance[Ledger] + positions[u].debt >= last.amount

\* C25: a complete cycle closes the position and leaves its record.  The
\* successful withdrawCollateral that ends a cycle (the repay before it has
\* taken debt + interest and set the debt to 0) leaves collateral = 0 and
\* debt = 0 and keeps lastUpdated, which is the time of the account's last
\* deposit or borrow; getUserPosition reports (0, 0, 0) for such a position
\* at any later time; and a deposit into it is accepted on the same terms as a
\* first deposit and starts a new cycle.
C25_CycleClosesPosition ==
    [][\A u \in Users :
          /\ (last'.op = "repay" /\ Succeeds /\ Caller = u) =>
                /\ positions'[u].debt = 0
                /\ loanToken'.balance[Ledger] - loanToken.balance[Ledger] =
                      positions[u].debt +
                      (positions[u].debt * 5 * WeeksSince(u)) \div 100
          /\ (last'.op = "withdrawCollateral" /\ Succeeds /\ Caller = u) =>
                /\ positions'[u].collateral = 0
                /\ positions'[u].debt = 0
                /\ positions'[u].lastUpdated = positions[u].lastUpdated
                /\ positions'[u].lastUpdated >= StartTime
          /\ (/\ last'.op = "getUserPosition" /\ Caller = u
              /\ positions[u].collateral = 0 /\ positions[u].debt = 0) =>
                last'.ret = <<0, 0, 0>>
          /\ (/\ last'.op = "depositCollateral" /\ Caller = u
              /\ positions[u].collateral = 0 /\ positions[u].debt = 0
              /\ positions[u].lastUpdated > 0) =>
                /\ Succeeds <=>
                      /\ collateralToken.allowance[u] >= last'.amount
                      /\ collateralToken.balance[u] >= last'.amount
                /\ Succeeds =>
                      positions'[u] = [collateral |-> last'.amount, debt |-> 0,
                                       lastUpdated |-> now]]_vars

\* an account that has paid interest and has taken its collateral back has
\* made the first deposit of a new cycle
C25_Witness ==
    /\ last.op = "depositCollateral"
    /\ last.result = "ok"
    /\ last.amount > 0
    /\ positions[last.user] =
          [collateral |-> last.amount, debt |-> 0, lastUpdated |-> now]
    /\ loanToken.balance[last.user] < UserLoan
    /\ collateralToken.balance[last.user] + last.amount = UserCollateral

\* C26 as stated: interest accrues at 5% a year.  A debt D left untouched for
\* 52 whole weeks carries an interest of 5% of D (rounded to a whole unit
\* either way), which getUserPosition reports and repay charges.
C26_FivePercentAYear ==
    \A u \in Users :
        (/\ positions[u].debt > 0
         /\ now - positions[u].lastUpdated = 52 * 604800)
        => /\ calculateInterest(u) * 100 >= positions[u].debt * 5 - 99
           /\ calculateInterest(u) * 100 <= positions[u].debt * 5 + 99
           /\ repayTotalAmount(u) * 100 <= positions[u].debt * 105 + 99
           /\ (last.op = "getUserPosition" /\ last.user = u) =>
                 last.ret[3] * 100 <= positions[u].debt * 5 + 99

\* C28 as stated: re-entering the ledger gains nothing.  Whatever an account's
\* calls do, also a call entered again during the token transfer of a call
\* that has not finished, the collateral the ledger has paid out to the
\* account never exceeds the collateral the account has deposited (an account
\* never holds more collateral tokens than it began with), and a debt is
\* cleared only by a step that moves debt + interest into the ledger.
C28_NoReentrancyGain ==
    [][\A u \in Users :
          /\ collateralToken'.balance[u] <= UserCollateral
          /\ (positions[u].debt > 0 /\ positions'[u].debt = 0) =>
                loanToken'.balance[Ledger] - loanToken.balance[Ledger] =
                    positions[u].debt +
                    (positions[u].debt * 5 * WeeksSince(u)) \div 100]_vars

\* the token a step calls, before and after, the amount the call asks the
\* token to move, and whether the call is a transferFrom
CalledToken ==
    IF last'.op \in {"depositCollateral", "transferCollateral"}
        THEN collateralToken ELSE loanToken

CalledTokenAfter ==
    IF last'.op \in {"depositCollateral", "transferCollateral"}
        THEN collateralToken' ELSE loanToken'

CalledAmount ==
    IF last'.op = "repay"
        THEN positions[Caller].debt +
             (positions[Caller].debt * 5 * WeeksSince(Caller)) \div 100
        ELSE last'.amount

\* C29: a transfer out of an account that holds less than the amount fails
\* with ERC20InsufficientBalance; a transferFrom (the one depositCollateral
\* and repay make) fails with ERC20InsufficientAllowance when the allowance is
\* short and with ERC20InsufficientBalance when the allowance covers the amount
\* and the balance does not; a failed call leaves every balance and allowance
\* of both tokens unchanged; a successful transferFrom lowers the owner's
\* allowance to the ledger by exactly the amount moved, and a successful
\* transfer leaves the allowances alone.
C29_TokenErrors ==
    [][/\ last'.op \in {"transferCollateral", "transferLoan"} =>
             /\ last'.result =
                   IF CalledToken.balance[Caller] < CalledAmount
                       THEN "ERC20InsufficientBalance" ELSE "ok"
             /\ CalledTokenAfter.allowance = CalledToken.allowance
       /\ (\/ last'.op = "depositCollateral"
           \/ last'.op = "repay" /\ positions[Caller].debt > 0) =>
             /\ last'.result =
                   IF CalledToken.allowance[Caller] < CalledAmount
                       THEN "ERC20InsufficientAllowance"
                   ELSE IF CalledToken.balance[Caller] < CalledAmount
                       THEN "ERC20InsufficientBalance"
                   ELSE "ok"
             /\ Succeeds =>
                   /\ CalledTokenAfter.allowance[Caller] =
                         CalledToken.allowance[Caller] - CalledAmount
                   /\ CalledTokenAfter.balance[Ledger] =
                         CalledToken.balance[Ledger] + CalledAmount
                   /\ CalledTokenAfter.balance[Caller] =
                         CalledToken.balance[Caller] - CalledAmount
       /\ last'.result \in {"ERC20InsufficientBalance",
                            "ERC20InsufficientAllowance"} =>
             /\ collateralToken' = collateralToken
             /\ loanToken' = loanToken]_vars

\* an account has tried to send more collateral tokens than it holds
C29_Witness ==
    /\ last.op = "transferCollateral"
    /\ last.result = "ERC20InsufficientBalance"
    /\ collateralToken.balance[last.user] < last.amount
    /\ collateralToken.balance[Ledger] > 0

\* the units of a token that the given holders hold together
RECURSIVE SumBalances(_, _)
SumBalances(balance, holders) ==
    IF holders = {} THEN 0
    ELSE LET h == CHOOSE x \in holders : TRUE
         IN  balance[h] + SumBalances(balance, holders \ {h})

\* C30: no call creates or destroys units of either asset.  In every reachable
\* state the balances of all holders of a token, the accounts and the ledger,
\* add up to what they held after deployment, and no balance is negative;
\* that includes deposits and transfers of amount 0 and transfers to oneself.
C30_SupplyConserved ==
    /\ SumBalances(collateralToken.balance, Holders) = 2 * UserCollateral
    /\ SumBalances(loanToken.balance, Holders) = InitialLiquidity + 2 * UserLoan
    /\ \A h \in Holders :
          collateralToken.balance[h] >= 0 /\ loanToken.balance[h] >= 0

\* an account has sent a positive amount of tokens to itself while the ledger
\* holds collateral and has lent
C30_Witness ==
    /\ last.op \in {"transferCollateral", "transferLoan"}
    /\ last.result = "ok"
    /\ last.amount > 0
    /\ last.ret = <<last.user>>
    /\ collateralToken.balance[Ledger] > 0
    /\ loanToken.balance[Ledger] < InitialLiquidity

\* C31: borrow checks the collateral before the liquidity.  When the caller's
\* collateral is below floor(amount * 150 / 100) and the ledger also holds
\* less than the amount, borrow fails with "Insufficient collateral";
\* "Insufficient liquidity" is reported only when the collateral covers the
\* amount and the ledger does not hold it.
C31_CollateralCheckedFirst ==
    [][last'.op = "borrow" =>
        /\ (/\ positions[Caller].collateral < (last'.amount * 150) \div 100
            /\ loanToken.balance[Ledger] < last'.amount)
           => last'.result = "Insufficient collateral"
        /\ last'.result = "Insufficient liquidity" =>
              /\ positions[Caller].collateral >= (last'.amount * 150) \div 100
              /\ loanToken.balance[Ledger] < last'.amount]_vars

\* a borrow that neither the caller's collateral nor the ledger's balance
\* covers has been refused for the collateral, on a position that holds some
C31_Witness ==
    /\ last.op = "borrow"
    /\ last.result = "Insufficient collateral"
    /\ positions[last.user].collateral > 0
    /\ positions[last.user].collateral < (last.amount * 150) \div 100
    /\ loanToken.balance[Ledger] < last.amount

\* the collateral that all positions record together
TotalCollateral ==
    SumBalances([u \in Users |-> positions[u].collateral], Users)

\* C32: collateral custody is conserved.  In every reachable state the
\* collateral tokens the ledger holds equal the sum of the collateral of all
\* positions, so the transfer in withdrawCollateral, which no liquidity check
\* precedes, is never refused for lack of balance.
C32_CollateralCustody ==
    /\ collateralToken.balance[Ledger] = TotalCollateral
    /\ \A u \in Users :
          positions[u].collateral <= collateralToken.balance[Ledger]
    /\ last.op = "withdrawCollateral" =>
          last.result \in {"ok", "Outstanding debt", "No collateral"}

\* one account has withdrawn its collateral while the ledger goes on holding
\* the collateral of the other
C32_Witness ==
    /\ last.op = "withdrawCollateral"
    /\ last.result = "ok"
    /\ last.logs[1].amount > 0
    /\ collateralToken.balance[Ledger] > 0
    /\ \E u \in Users \ {last.user} :
          positions[u].collateral = collateralToken.balance[Ledger]

\* the principal all positions owe together
TotalDebt == SumBalances([u \in Users |-> positions[u].debt], Users)

\* the loan tokens the ledger holds plus the principal it is owed
LoanBook == loanToken.balance[Ledger] + TotalDebt

\* the interest a step collects: that of a successful repay, else nothing
InterestCollected ==
    IF last'.op = "repay" /\ Succeeds
        THEN (positions[Caller].debt * 5 * WeeksSince(Caller)) \div 100
        ELSE 0

\* C33: loan custody accounting.  The loan tokens the ledger holds plus the
\* outstanding debt of all positions start at the initial liquidity and are
\* never below it; each step changes the debt of at most one position, and
\* the ledger's loan tokens plus that debt grow in the step by exactly the
\* interest that a successful repay collects in it, and by nothing else.
C33_LoanCustodyAccounting ==
    /\ [](/\ LoanBook >= InitialLiquidity
          /\ last.op = "constructor" => LoanBook = InitialLiquidity)
    /\ [][/\ InterestCollected >= 0
          /\ \E u \in Users :
                /\ \A v \in Users \ {u} : positions'[v].debt = positions[v].debt
                /\ loanToken'.balance[Ledger] + positions'[u].debt =
                      loanToken.balance[Ledger] + positions[u].debt
                        + InterestCollected]_vars

\* interest has been collected while the other account still owes principal
C33_Witness ==
    /\ last.op = "repay"
    /\ last.result = "ok"
    /\ LoanBook > InitialLiquidity
    /\ \E u \in Users \ {last.user} : positions[u].debt > 0

\* C34: depositCollateral(0) succeeds for any account in any state, with no
\* balance and no allowance needed; it moves no token and leaves collateral
\* and debt unchanged, but it sets lastUpdated to now and emits
\* Deposited(account, 0); so the interest of a position with debt is 0 right
\* after it.
C34_ZeroDeposit ==
    [][\A u \in Users :
          (last'.op = "depositCollateral" /\ last'.amount = 0 /\ Caller = u) =>
             /\ Succeeds
             /\ collateralToken' = collateralToken
             /\ loanToken' = loanToken
             /\ positions'[u].collateral = positions[u].collateral
             /\ positions'[u].debt = positions[u].debt
             /\ positions'[u].lastUpdated = now
             /\ last'.logs = <<[name |-> "Deposited", user |-> u, amount |-> 0]>>
             /\ (positions'[u].debt * 5 * WeeksSince(u)') \div 100 = 0]_vars

\* an account with debt, no collateral tokens left and no allowance has
\* deposited 0 in a block later than its last deposit or borrow
C34_Witness ==
    /\ last.op = "depositCollateral"
    /\ last.result = "ok"
    /\ last.amount = 0
    /\ positions[last.user].debt > 0
    /\ collateralToken.balance[last.user] = 0
    /\ collateralToken.allowance[last.user] = 0
    /\ positions[last.user].lastUpdated = now
    /\ now > StartTime

\* C35: a further borrow discards the interest accrued so far.  When an
\* account with debt D > 0 and accrued interest I > 0 borrows A successfully at
\* time t, the stored debt becomes exactly D + A and the interest at t is 0;
\* a getUserPosition that directly follows a successful borrow reports the
\* stored debt and interest 0; and a successful repay less than 604800
\* seconds after t moves exactly the stored debt.
C35_BorrowDiscardsInterest ==
    [][\A u \in Users :
          /\ (/\ last'.op = "borrow" /\ Succeeds /\ Caller = u
              /\ positions[u].debt > 0
              /\ (positions[u].debt * 5 * WeeksSince(u)) \div 100 > 0)
             => /\ positions'[u].debt = positions[u].debt + last'.amount
                /\ positions'[u].lastUpdated = now
                /\ (positions'[u].debt * 5 * WeeksSince(u)') \div 100 = 0
          /\ (/\ last.op = "borrow" /\ last.result = "ok" /\ last.user = u
              /\ last'.op = "getUserPosition" /\ Caller = u)
             => /\ last'.ret[2] = positions[u].debt
                /\ last'.ret[3] = 0
          /\ (/\ last.op = "borrow" /\ last.result = "ok" /\ last.user = u
              /\ last'.op = "repay" /\ Succeeds /\ Caller = u)
             => last'.logs =
                   <<[name |-> "Repaid", user |-> u,
                      amount |-> positions[u].debt]>>
          /\ (/\ last'.op = "repay" /\ Succeeds /\ Caller = u
              /\ now < positions[u].lastUpdated + 604800)
             => loanToken.balance[u] - loanToken'.balance[u] =
                   positions[u].debt]_vars

\* a second borrow of 11 has been added to a debt of 11 two weeks or more
\* after the start
C35_Witness ==
    /\ last.op = "borrow"
    /\ last.result = "ok"
    /\ last.amount = 11
    /\ positions[last.user].debt = 22
    /\ positions[last.user].lastUpdated = now
    /\ now >= StartTime + 2 * 604800
    /\ calculateInterest(last.user) = 0


----------------------------------------------------------------------------
(* Claim C36: read, approve, repay.                                        *)

\* the week counts at which a reading of debt + interest, taken since the
\* position was last updated, equals the allowance the account holds now
ReadingWeeks(u) ==
    {w \in 0..WeeksSince(u) :
        loanToken.allowance[u] =
            positions[u].debt + (positions[u].debt * 5 * w) \div 100}

\* a repay made by an indebted account whose allowance is exactly such a
\* reading and whose balance covers it
ApprovedRepay(u) ==
    /\ last'.op = "repay" /\ Caller = u
    /\ positions[u].debt > 0
    /\ ReadingWeeks(u) # {}
    /\ loanToken.balance[u] >= loanToken.allowance[u]

\* C36 as stated: the repay succeeds if and only if the week count at the
\* repay equals the week count at the reading, and fails with
\* ERC20InsufficientAllowance, debt unchanged, when a week boundary lies
\* between them.
C36_SucceedsIffSameWeek ==
    [][\A u \in Users : ApprovedRepay(u) =>
          \A w \in ReadingWeeks(u) :
             /\ Succeeds <=> WeeksSince(u) = w
             /\ WeeksSince(u) # w =>
                   /\ last'.result = "ERC20InsufficientAllowance"
                   /\ positions'[u].debt = positions[u].debt]_vars

\* C36: when an account's loan allowance is exactly the debt + interest it
\* read since its position was last updated and its balance covers it, its
\* repay succeeds if and only if the interest at the repay equals the
\* interest read, which is always so within the same week; when the
\* interest has grown the repay fails with ERC20InsufficientAllowance and
\* leaves the position and both tokens unchanged.
C36_SucceedsIffSameInterest ==
    [][\A u \in Users : ApprovedRepay(u) =>
          /\ Succeeds <=>
                (positions[u].debt * 5 * WeeksSince(u)) \div 100
                    = loanToken.allowance[u] - positions[u].debt
          /\ WeeksSince(u) \in ReadingWeeks(u) => Succeeds
          /\ ~Succeeds =>
                /\ last'.result = "ERC20InsufficientAllowance"
                /\ positions' = positions
                /\ loanToken' = loanToken
                /\ collateralToken' = collateralToken]_vars

\* a repay has just failed on the allowance, which is the total of the week
\* before
C36_Witness ==
    /\ last.op = "repay" /\ last.result = "ERC20InsufficientAllowance"
    /\ positions[last.user].debt > 0
    /\ WeeksSince(last.user) >= 1
    /\ loanToken.allowance[last.user] =
          positions[last.user].debt
            + (positions[last.user].debt * 5 * (WeeksSince(last.user) - 1)) \div 100
    /\ loanToken.balance[last.user] >= loanToken.allowance[last.user] + 1


----------------------------------------------------------------------------
(* Claim C37: collateral is recoverable once the debt is cleared.          *)

\* what withdrawCollateral requires of u, and what its transfer requires of
\* the custody
Recoverable(u) ==
    /\ positions[u].debt = 0
    /\ positions[u].collateral > 0
    /\ collateralToken.balance[Ledger] >= positions[u].collateral

\* C37: every successful repay leaves its account with no debt, collateral
\* above zero and a custody that holds it; that stays so through every step
\* other than a successful borrow or withdrawCollateral of the same account,
\* whatever the other account does, and a withdrawCollateral called by the
\* account while it is so succeeds and pays out the whole collateral.
C37_CollateralRecoverable ==
    [][\A u \in Users :
          /\ (last'.op = "repay" /\ Caller = u /\ Succeeds) => Recoverable(u)'
          /\ (/\ Recoverable(u)
              /\ ~(/\ last'.op \in {"borrow", "withdrawCollateral"}
                   /\ Caller = u /\ Succeeds))
             => Recoverable(u)'
          /\ (Recoverable(u) /\ last'.op = "withdrawCollateral" /\ Caller = u)
             => /\ Succeeds
                /\ collateralToken'.balance[u] =
                      collateralToken.balance[u] + positions[u].collateral
                /\ positions'[u].collateral = 0]_vars

\* an account that repaid with interest withdraws its collateral while the
\* other account holds collateral and debt
C37_Witness ==
    /\ last.op = "withdrawCollateral" /\ last.result = "ok"
    /\ last.logs[1].amount > 0
    /\ \E v \in Users \ {last.user} :
          /\ positions[v].debt > 0
          /\ positions[v].collateral > 0
    /\ loanToken.balance[last.user] < UserLoan


----------------------------------------------------------------------------
(* The web app's view of a position.  ethers.formatEther writes an amount  *)
(* of base units as a decimal string with 18 fractional digits, trailing   *)
(* zeros dropped down to one digit; parseFloat reads the string back as a  *)
(* floating-point number.                                                  *)

\* the decimal digit of weight 10^k in value; the amounts of the model stay
\* below 10^10, so the digits of higher weight are zero
Digit(value, k) == IF k > 9 THEN 0 ELSE (value \div (10 ^ k)) % 10

\* variant: the amount is written with six fractional digits
formatEther_sixDigits(value) ==
    [whole |-> Digit(value, 18), frac |-> [i \in 1..6 |-> Digit(value, 18 - i)]]

formatEther(value) ==
    LET digits == [i \in 1..18 |-> Digit(value, 18 - i)]
        kept == {i \in 1..18 : digits[i] # 0} \cup {1}
        n == CHOOSE i \in kept : \A j \in kept : j <= i
    IN  [whole |-> Digit(value, 18), frac |-> SubSeq(digits, 1, n)]

RECURSIVE DigitsValue(_)
DigitsValue(digits) ==
    IF digits = <<>> THEN 0
    ELSE DigitsValue(SubSeq(digits, 1, Len(digits) - 1)) * 10 + digits[Len(digits)]

\* the number read from a decimal string, as significand * 10^exponent; a
\* double holds it with 53 significant bits and is zero only when the
\* significand is zero
parseFloat(str) ==
    [significand |-> DigitsValue(<<str.whole>> \o str.frac),
     exponent    |-> 0 - Len(str.frac)]

\* getUserPosition of the web app: the three amounts the ledger returned,
\* formatted
webGetUserPosition(ret) ==
    [collateral |-> formatEther(ret[1]),
     debt       |-> formatEther(ret[2]),
     interest   |-> formatEther(ret[3])]

\* the position a component holds: none before the first read, else one
NoPosition == <<>>

\* the string '0' that stands in for a field of a position not yet read
ZeroString == [whole |-> 0, frac |-> <<>>]

debtOf(userPosition) ==
    IF userPosition = NoPosition THEN ZeroString ELSE userPosition[1].debt

collateralOf(userPosition) ==
    IF userPosition = NoPosition THEN ZeroString ELSE userPosition[1].collateral

canWithdraw(userPosition) ==
    /\ userPosition # NoPosition
    /\ parseFloat(userPosition[1].debt).significand = 0
    /\ parseFloat(userPosition[1].collateral).significand > 0

repayDisabled(userPosition) == parseFloat(debtOf(userPosition)).significand = 0

withdrawDisabled(userPosition) ==
    \/ parseFloat(debtOf(userPosition)).significand > 0
    \/ parseFloat(collateralOf(userPosition)).significand = 0

----------------------------------------------------------------------------
(* Claim C38: the web app's gating refines the ledger's preconditions.     *)

\* the position the web app holds right after the ledger answered
\* getUserPosition
FreshPosition == <<webGetUserPosition(last.ret)>>

\* C38: for a position just read from the ledger, the Withdraw action is
\* enabled, in the modal and in the dashboard, exactly when debt == 0 and
\* collateral > 0, and a withdrawCollateral sent then succeeds exactly when
\* it is enabled; the Repay action is enabled exactly when debt > 0, and a
\* repay sent then fails with "No debt to repay" exactly when it is disabled.
C38_GatingRefinesLedger ==
    [][\A u \in Users :
          (last.op = "getUserPosition" /\ last.user = u) =>
             /\ canWithdraw(FreshPosition)
                   <=> (positions[u].debt = 0 /\ positions[u].collateral > 0)
             /\ withdrawDisabled(FreshPosition) <=> ~canWithdraw(FreshPosition)
             /\ repayDisabled(FreshPosition) <=> positions[u].debt = 0
             /\ (last'.op = "withdrawCollateral" /\ Caller = u)
                   => (Succeeds <=> canWithdraw(FreshPosition))
             /\ (last'.op = "repay" /\ Caller = u)
                   => (last'.result = "No debt to repay"
                          <=> repayDisabled(FreshPosition))]_vars

\* a position with debt and collateral has been read: Repay is enabled and
\* Withdraw is not
C38_Witness ==
    /\ last.op = "getUserPosition"
    /\ positions[last.user].debt > 0
    /\ positions[last.user].collateral > 0
    /\ ~repayDisabled(FreshPosition)
    /\ withdrawDisabled(FreshPosition)
    /\ ~canWithdraw(FreshPosition)


----------------------------------------------------------------------------
(* Claim C39: App after a wallet disconnect.                               *)

\* the wallet announces an empty account list
Disconnects == last'.op = "accountsChanged" /\ last'.user = NoAccount

\* the wallet announces an account
Connects == last'.op = "accountsChanged" /\ last'.user # NoAccount

\* C39: a disconnect leaves isConnected and isInitialized false and
\* userAddress null; isInitialized, once false while disconnected, becomes
\* true no earlier than the next announcement of an account, also when an
\* initializeContracts call started before completes in between; so
\* isInitialized is never true while isConnected is false.
C39_InitializedOnlyWhileConnected ==
    [][/\ Disconnects =>
             /\ ~app'.isConnected
             /\ ~app'.isInitialized
             /\ app'.userAddress = NoAccount
       /\ (~app.isConnected /\ ~app.isInitialized /\ ~Connects)
             => ~app'.isInitialized
       /\ app'.isInitialized => app'.isConnected]_vars

----------------------------------------------------------------------------
(* Claim C40: getContracts and initialisation.                             *)

\* C40: getContracts returns the instances only when an initializeContracts
\* call has completed successfully since the page was loaded; before any
\* call, and right after a call that failed with none completed before, it
\* throws 'Contracts not initialized'.
C40_ContractsOnlyAfterInitialization ==
    [][last'.op = "getContracts" =>
          /\ last'.result = "ok" => initializeContractsReturned
          /\ (last.op \in {"constructor", "reload"}) =>
                last'.result = "Contracts not initialized"
          /\ (/\ last.op = "initializeContracts" /\ last.result # "ok"
              /\ ~initializeContractsReturned)
             => last'.result = "Contracts not initialized"]_vars

====
